---- MODULE Spec2Model ----
(***************************************************************************)
(* A model of the HTTP client wrappers of the Advisor repository:          *)
(*   - PersonalAIClient            (src/src/pai_api_client.py)             *)
(*   - YahooFinanceAPI and the forex-rate clients                          *)
(*                                 (src/src/data_api_client.py)            *)
(*   - PersonalAIValidator         (src/tests/test_validate_api_key.py)    *)
(*                                                                         *)
(* Python values are tagged records, so that None, "", False and the other *)
(* values stay distinct.  An invocation of a method is one action: it      *)
(* draws the arguments and what the remote side answers, runs the whole    *)
(* method body and leaves the requests issued, the log records emitted     *)
(* (trace) and what the caller receives (outcome).                         *)
(***************************************************************************)
EXTENDS Integers, Sequences, FiniteSets, TLC

VARIABLES
    self,            \* attributes of the client instance under call
    ctor,            \* the arguments the instance was constructed with
    ENABLE_LOGGING,  \* module flag, read once at import
    APP_MODE,        \* module flag, read once at import
    pc,              \* "idle": no invocation in progress; "done": one has ended
    call,            \* the invocation: method name and arguments
    trace,           \* what the invocation did: log records and HTTP requests, in order
    outcome,         \* what reached the caller: a returned value or a raised exception
    earlier          \* history: what the calls already made on the instance were like

vars == <<self, ctor, ENABLE_LOGGING, APP_MODE, pc, call, trace, outcome, earlier>>

-----------------------------------------------------------------------------
(* Python values *)

None == [t |-> "None"]

Str(s) == [t |-> "str", s |-> s]

Bool(b) == [t |-> "bool", b |-> b]

Num(n) == [t |-> "num", n |-> n]

Dict(f) == [t |-> "dict", d |-> f]

List(q) == [t |-> "list", l |-> q]

Exc(cls) == [t |-> "exc", cls |-> cls]

\* requests.exceptions.HTTPError, which carries the response it was raised for.
HTTPError(response) == [t |-> "exc", cls |-> "HTTPError", response |-> response]

\* A keyword argument the caller left out of the call.
Omitted == [t |-> "omitted"]

\* The parameter's value inside the method: its default when left out.
Arg(a, default) == IF a = Omitted THEN default ELSE a

\* Python truth value, as used by `or`.
Truthy(x) ==
    CASE x.t = "None" -> FALSE
      [] x.t = "str"  -> x.s # ""
      [] x.t = "bool" -> x.b
      [] x.t = "num"  -> x.n # 0
      [] x.t = "dict" -> DOMAIN x.d # {}
      [] x.t = "list" -> x.l # <<>>
      [] OTHER        -> TRUE

\* Python `a or b`.
Or(a, b) == IF Truthy(a) THEN a ELSE b

-----------------------------------------------------------------------------
(* json.dumps: a Python value to a JSON document *)

RECURSIVE dumps(_)
dumps(x) ==
    CASE x.t = "None" -> [j |-> "null"]
      [] x.t = "str"  -> [j |-> "string", s |-> x.s]
      [] x.t = "bool" -> [j |-> IF x.b THEN "true" ELSE "false"]
      [] x.t = "num"  -> [j |-> "number", n |-> x.n]
      [] x.t = "dict" -> [j |-> "object", o |-> [k \in DOMAIN x.d |-> dumps(x.d[k])]]
      [] x.t = "list" -> [j |-> "array", a |-> [i \in DOMAIN x.l |-> dumps(x.l[i])]]

\* json.loads: a JSON document to a Python value.
RECURSIVE loads(_)
loads(d) ==
    CASE d.j = "null"   -> None
      [] d.j = "string" -> Str(d.s)
      [] d.j = "true"   -> Bool(TRUE)
      [] d.j = "false"  -> Bool(FALSE)
      [] d.j = "number" -> Num(d.n)
      [] d.j = "object" -> Dict([k \in DOMAIN d.o |-> loads(d.o[k])])
      [] d.j = "array"  -> List([i \in DOMAIN d.a |-> loads(d.a[i])])

-----------------------------------------------------------------------------
(* Exceptions and the Python operations that raise them.  An operation that *)
(* raises yields the exception (a value tagged "exc") in place of its result, *)
(* and an operation applied to an exception yields that exception: once a     *)
(* statement of a try block has raised, the statements after it do not run.   *)

IsExc(x) == x.t = "exc"

\* The classes an exception class derives from, itself included.
Bases(cls) ==
    CASE cls \in {"ConnectionError", "Timeout", "HTTPError"} ->
            {cls, "RequestException", "OSError", "Exception"}
      [] cls = "JSONDecodeError" ->
            {cls, "RequestException", "ValueError", "OSError", "Exception"}
      [] cls = "KeyError" -> {cls, "LookupError", "Exception"}
      [] OTHER -> {cls, "Exception"}

\* isinstance(e, cls), as an except clause tests it.
IsInstance(e, cls) == cls \in Bases(e.cls)

\* x[key]
Subscript(x, key) ==
    CASE IsExc(x)     -> x
      [] x.t = "dict" -> IF key \in DOMAIN x.d THEN x.d[key] ELSE Exc("KeyError")
      [] OTHER        -> Exc("TypeError")

\* x.get(key, default)
Get(x, key, default) ==
    CASE IsExc(x)     -> x
      [] x.t = "dict" -> IF key \in DOMAIN x.d THEN x.d[key] ELSE default
      [] OTHER        -> Exc("AttributeError")

\* The greatest rate a response quotes.
MaxRate == 2

\* float(x): a number as it is, a numeral parsed, anything else an error.
float(x) ==
    CASE IsExc(x)     -> x
      [] x.t = "num"  -> x
      [] x.t = "bool" -> Num(IF x.b THEN 1 ELSE 0)
      [] x.t = "str"  ->
            IF \E n \in 0..MaxRate : ToString(n) = x.s
            THEN Num(CHOOSE n \in 0..MaxRate : ToString(n) = x.s)
            ELSE Exc("ValueError")
      [] OTHER        -> Exc("TypeError")

-----------------------------------------------------------------------------
(* The remote side, as seen through requests.get / requests.post *)

\* Statuses a response may arrive with, any of them with a body: success, a 3xx
\* that requests does not follow (300 Multiple Choices), client and server error.
StatusCodes == {200, 201, 300, 404, 500}

TransportErrors == {Exc("ConnectionError"), Exc("Timeout")}

\* The bytes of a response body: none, bytes that are not JSON, or the
\* serialisation of a JSON document.
EmptyBody == [k |-> "empty"]

TextBody(s) == [k |-> "text", v |-> s]

JsonBody(doc) == [k |-> "json", doc |-> doc]

Response(status, body) == [t |-> "response", status_code |-> status, body |-> body]

\* requests.Response.raise_for_status: HTTPError for 4xx and 5xx, nothing otherwise.
raise_for_status(response) ==
    IF response.status_code >= 400 /\ response.status_code < 600
    THEN HTTPError(response)
    ELSE None

\* response = requests.get(...); response.raise_for_status(): the response, or
\* the error either of the two raised.
Checked(remote) ==
    IF IsExc(remote) THEN remote
    ELSE LET e == raise_for_status(remote) IN IF e = None THEN remote ELSE e

\* response.json()
json(response) ==
    IF IsExc(response) THEN response
    ELSE IF response.body.k = "json" THEN loads(response.body.doc)
    ELSE Exc("JSONDecodeError")

Return(v) == [kind |-> "return", value |-> v]

Raise(e) == [kind |-> "raise", value |-> e]

\* An exception raised inside a try block.
Raised(e) == [e |-> "raise", exc |-> e]

\* A helper method entered with an argument.
Called(fn, arg) == [e |-> "call", fn |-> fn, arg |-> arg]

\* One call of requests.get / requests.post and what it gave back.
Http(verb, url, headers, params, data, result) ==
    [e |-> "http", verb |-> verb, url |-> url, headers |-> headers,
     params |-> params, data |-> data, result |-> result]

-----------------------------------------------------------------------------
(* PersonalAIClient *)

\* The debug records guarded by the logging flag alone.
IsLoggingEnabled == ENABLE_LOGGING

IsDevLogging == ENABLE_LOGGING /\ APP_MODE = "development"

debug(msg) ==
    IF IsDevLogging THEN <<[e |-> "log", level |-> "DEBUG", msg |-> msg]>> ELSE <<>>

__init__(api_key, base_url, domain_name) ==
    [api_key |-> api_key, base_url |-> base_url, domain_name |-> domain_name]

_get_headers(s) ==
    ("Content-Type" :> "application/json") @@ ("x-api-key" :> s.api_key)

_log_error(error) ==
    <<Called("_log_error", error)>>
    \o IF ENABLE_LOGGING
       THEN <<[e |-> "log", level |-> "ERROR", msg |-> error,
               exc_info |-> (APP_MODE = "development")]>>
       ELSE <<>>

\* Request without the raise_for_status step.
RequestSkippingStatusCheck(s, verb, url, params, data, remote, msg) ==
    LET before == debug("Generated headers")
                  \o <<Http(verb, url, _get_headers(s), params, data, remote)>>
    IN  IF remote.t = "exc"
        THEN [trace |-> before \o <<Raised(remote)>> \o _log_error(remote),
              outcome |-> Raise(remote)]
        ELSE [trace |-> before \o debug(<<msg, remote.status_code>>),
              outcome |-> Return(remote)]

\* Request with a handler that re-raises without calling _log_error.
RequestRaisingUnlogged(s, verb, url, params, data, remote, msg) ==
    LET before == debug("Generated headers")
                  \o <<Http(verb, url, _get_headers(s), params, data, remote)>>
        error  == IF remote.t = "exc" THEN remote ELSE raise_for_status(remote)
    IN  IF error # None
        THEN [trace |-> before \o <<Raised(error)>>, outcome |-> Raise(error)]
        ELSE [trace |-> before \o debug(<<msg, remote.status_code>>),
              outcome |-> Return(remote)]

\* The body every request method shares: headers, one request, raise_for_status,
\* the debug record, return; an exception raised on the way enters the handler,
\* which calls _log_error with it and re-raises it.  The trace is what ran before
\* the outcome reached the caller.
Request(s, verb, url, params, data, remote, msg) ==
    LET before == debug("Generated headers")
                  \o <<Http(verb, url, _get_headers(s), params, data, remote)>>
        error  == IF remote.t = "exc" THEN remote ELSE raise_for_status(remote)
    IN  IF error # None
        THEN [trace |-> before \o <<Raised(error)>> \o _log_error(error),
              outcome |-> Raise(error)]
        ELSE [trace |-> before \o debug(<<msg, remote.status_code>>),
              outcome |-> Return(remote)]

send_external_invite(s, email, domain_name, remote) ==
    LET dn     == Or(Arg(domain_name, None), s.domain_name)
        url    == s.base_url \o "/v1/invite"
        params == Dict(("email" :> email) @@ ("domain_name" :> dn))
    IN  Request(s, "POST", url, params, None, remote, "Sent external invite")

validate_api_key(s, remote) ==
    LET url  == s.base_url \o "/v1/api-key/validate"
    IN  Request(s, "GET", url, None, None, remote, "Validated API key")

validate_token(s, token, challenge, remote) ==
    LET url    == s.base_url \o "/external/api/webhook/verification"
        params == Dict(("token" :> token) @@ ("challenge" :> challenge))
    IN  Request(s, "GET", url, params, None, remote, "Validated token")

send_ai_instruction(s, text, context, domain_name, user_name, session_id, source_name, is_stack, is_draft, remote) ==
    LET dn      == Or(Arg(domain_name, None), s.domain_name)
        url     == s.base_url \o "/v1/instruction?cmd=search"
        payload == Dict(("Text" :> text)
                     @@ ("Context" :> Arg(context, None))
                     @@ ("DomainName" :> dn)
                     @@ ("UserName" :> Arg(user_name, None))
                     @@ ("SessionId" :> Arg(session_id, None))
                     @@ ("SourceName" :> Arg(source_name, None))
                     @@ ("is_stack" :> Arg(is_stack, Bool(FALSE)))
                     @@ ("is_draft" :> Arg(is_draft, Bool(FALSE))))
    IN  Request(s, "POST", url, None, dumps(payload), remote, "Sent AI instruction")

upload_document(s, text, title, start_time, end_time, domain_name, tags, is_stack, remote) ==
    LET dn      == Or(Arg(domain_name, None), s.domain_name)
        url     == s.base_url \o "/v1/upload-text"
        payload == Dict(("Text" :> text)
                     @@ ("Title" :> Arg(title, None))
                     @@ ("StartTime" :> Arg(start_time, None))
                     @@ ("EndTime" :> Arg(end_time, None))
                     @@ ("DomainName" :> dn)
                     @@ ("Tags" :> Arg(tags, None))
                     @@ ("is_stack" :> Arg(is_stack, Bool(TRUE))))
    IN  Request(s, "POST", url, None, dumps(payload), remote, "Uploaded document")

\* upload_url falling back to the instance default only for an override of None.
upload_url_unless_none(s, url_to_upload, title, start_time, end_time, domain_name, tags, is_stack, remote) ==
    LET dn      == IF Arg(domain_name, None) = None THEN s.domain_name ELSE domain_name
        url     == s.base_url \o "/v1/upload"
        payload == Dict(("Url" :> url_to_upload)
                     @@ ("Title" :> Arg(title, None))
                     @@ ("StartTime" :> Arg(start_time, None))
                     @@ ("EndTime" :> Arg(end_time, None))
                     @@ ("DomainName" :> dn)
                     @@ ("Tags" :> Arg(tags, None))
                     @@ ("is_stack" :> Arg(is_stack, Bool(TRUE))))
    IN  Request(s, "POST", url, None, dumps(payload), remote, "Uploaded URL")

upload_url(s, url_to_upload, title, start_time, end_time, domain_name, tags, is_stack, remote) ==
    LET dn      == Or(Arg(domain_name, None), s.domain_name)
        url     == s.base_url \o "/v1/upload"
        payload == Dict(("Url" :> url_to_upload)
                     @@ ("Title" :> Arg(title, None))
                     @@ ("StartTime" :> Arg(start_time, None))
                     @@ ("EndTime" :> Arg(end_time, None))
                     @@ ("DomainName" :> dn)
                     @@ ("Tags" :> Arg(tags, None))
                     @@ ("is_stack" :> Arg(is_stack, Bool(TRUE))))
    IN  Request(s, "POST", url, None, dumps(payload), remote, "Uploaded URL")

\* send_ai_message sending the instance default whatever the override.
send_ai_message_ignoring_override(s, text, context, domain_name, user_name, session_id, source_name, is_stack, is_draft, remote) ==
    LET url     == s.base_url \o "/v1/message"
        payload == Dict(("Text" :> text)
                     @@ ("Context" :> Arg(context, None))
                     @@ ("DomainName" :> s.domain_name)
                     @@ ("UserName" :> Arg(user_name, None))
                     @@ ("SessionId" :> Arg(session_id, None))
                     @@ ("SourceName" :> Arg(source_name, None))
                     @@ ("is_stack" :> Arg(is_stack, Bool(FALSE)))
                     @@ ("is_draft" :> Arg(is_draft, Bool(FALSE))))
    IN  Request(s, "POST", url, None, dumps(payload), remote, "Sent AI message")

send_ai_message(s, text, context, domain_name, user_name, session_id, source_name, is_stack, is_draft, remote) ==
    LET dn      == Or(Arg(domain_name, None), s.domain_name)
        url     == s.base_url \o "/v1/message"
        payload == Dict(("Text" :> text)
                     @@ ("Context" :> Arg(context, None))
                     @@ ("DomainName" :> dn)
                     @@ ("UserName" :> Arg(user_name, None))
                     @@ ("SessionId" :> Arg(session_id, None))
                     @@ ("SourceName" :> Arg(source_name, None))
                     @@ ("is_stack" :> Arg(is_stack, Bool(FALSE)))
                     @@ ("is_draft" :> Arg(is_draft, Bool(FALSE))))
    IN  Request(s, "POST", url, None, dumps(payload), remote, "Sent AI message")

\* A dict without its None-valued entries.
WithoutNone(x) ==
    Dict([k \in {n \in DOMAIN x.d : x.d[n] # None} |-> x.d[k]])

\* upload_memory leaving the arguments without a value out of the payload.
upload_memory_dropping_none(s, text, created_time, source_name, raw_feed_text, domain_name, tags, remote) ==
    LET dn      == Or(Arg(domain_name, None), s.domain_name)
        url     == s.base_url \o "/v1/memory"
        payload == Dict(("Text" :> text)
                     @@ ("CreatedTime" :> Arg(created_time, None))
                     @@ ("SourceName" :> Arg(source_name, None))
                     @@ ("RawFeedText" :> Arg(raw_feed_text, None))
                     @@ ("DomainName" :> dn)
                     @@ ("Tags" :> Arg(tags, None)))
    IN  Request(s, "POST", url, None, dumps(WithoutNone(payload)), remote,
                "Uploaded memory")

upload_memory(s, text, created_time, source_name, raw_feed_text, domain_name, tags, remote) ==
    LET dn      == Or(Arg(domain_name, None), s.domain_name)
        url     == s.base_url \o "/v1/memory"
        payload == Dict(("Text" :> text)
                     @@ ("CreatedTime" :> Arg(created_time, None))
                     @@ ("SourceName" :> Arg(source_name, None))
                     @@ ("RawFeedText" :> Arg(raw_feed_text, None))
                     @@ ("DomainName" :> dn)
                     @@ ("Tags" :> Arg(tags, None)))
    IN  Request(s, "POST", url, None, dumps(payload), remote, "Uploaded memory")

\* A method that stores the resolved domain name on the instance.
AfterCallStoringDomain(s, method, args) ==
    IF "domain_name" \in DOMAIN args
    THEN [s EXCEPT !.domain_name = Or(Arg(args.domain_name, None), s.domain_name)]
    ELSE s

\* The instance after a method has run: no method assigns to an attribute
\* (`domain_name = domain_name or self.domain_name` binds the local name).
AfterCall(s, method, args) == s

-----------------------------------------------------------------------------
(* Inputs of the PersonalAIClient specification *)

ApiKeys == {"key-1", "key-2"}

BaseUrls == {"https://api.personal.ai"}

\* The instance default: not given, empty, or a persona.
InstanceDomains == {None, Str(""), Str("ai-climbing")}

\* A per-call override: left out, None, empty, or another persona.
Overrides == {Omitted, None, Str(""), Str("lounge")}

Texts == {Str("hi")}

Optional == {Omitted, Str("x")}

Flags == {Omitted, Bool(TRUE), Bool(FALSE)}

\* What requests.get / requests.post gives back: an exception or a response.
Remotes == TransportErrors \cup {Response(st, TextBody("ok")) : st \in StatusCodes}

NoCall == [method |-> "none"]

NoOutcome == [kind |-> "none"]

\* No call made yet with an override of its own, none that raised.
NoEarlier == [overridden |-> FALSE, raised |-> FALSE]

Init ==
    /\ ENABLE_LOGGING \in BOOLEAN
    /\ APP_MODE \in {"development", "production"}
    /\ \E k \in ApiKeys, b \in BaseUrls, d \in InstanceDomains :
          /\ ctor = [api_key |-> k, base_url |-> b, domain_name |-> d]
          /\ self = __init__(k, b, d)
    /\ pc = "idle"
    /\ call = NoCall
    /\ trace = <<>>
    /\ outcome = NoOutcome
    /\ earlier = NoEarlier

\* One invocation of `method` with `args`, `r` being what the method's body yields.
Invoke(method, args, r) ==
    /\ pc' = "done"
    /\ call' = [method |-> method, args |-> args]
    /\ trace' = r.trace
    /\ outcome' = r.outcome
    /\ self' = AfterCall(self, method, args)
    /\ UNCHANGED <<ctor, ENABLE_LOGGING, APP_MODE, earlier>>

SendExternalInvite ==
    /\ pc = "idle"
    /\ \E email \in {Str("a@example.com")}, domain_name \in Overrides, remote \in Remotes :
           Invoke("send_external_invite",
                  [email |-> email, domain_name |-> domain_name],
                  send_external_invite(self, email, domain_name, remote))

ValidateApiKey ==
    /\ pc = "idle"
    /\ \E remote \in Remotes :
           Invoke("validate_api_key", <<>>, validate_api_key(self, remote))

ValidateToken ==
    /\ pc = "idle"
    /\ \E token \in {Str("tok")}, challenge \in {Str("ch")}, remote \in Remotes :
           Invoke("validate_token", [token |-> token, challenge |-> challenge],
                  validate_token(self, token, challenge, remote))

SendAiInstruction ==
    /\ pc = "idle"
    /\ \E text \in Texts, context \in Optional, domain_name \in Overrides,
          user_name \in Optional, session_id \in Optional, source_name \in Optional,
          is_stack \in Flags, is_draft \in Flags, remote \in Remotes :
           Invoke("send_ai_instruction",
                  [text |-> text, context |-> context, domain_name |-> domain_name,
                   user_name |-> user_name, session_id |-> session_id,
                   source_name |-> source_name, is_stack |-> is_stack,
                   is_draft |-> is_draft],
                  send_ai_instruction(self, text, context, domain_name, user_name,
                                      session_id, source_name, is_stack, is_draft, remote))

UploadDocument ==
    /\ pc = "idle"
    /\ \E text \in Texts, title \in Optional, start_time \in Optional,
          end_time \in Optional, domain_name \in Overrides, tags \in Optional,
          is_stack \in Flags, remote \in Remotes :
           Invoke("upload_document",
                  [text |-> text, title |-> title, start_time |-> start_time,
                   end_time |-> end_time, domain_name |-> domain_name, tags |-> tags,
                   is_stack |-> is_stack],
                  upload_document(self, text, title, start_time, end_time,
                                  domain_name, tags, is_stack, remote))

UploadUrl ==
    /\ pc = "idle"
    /\ \E url_to_upload \in {Str("https://example.com")}, title \in Optional,
          start_time \in Optional, end_time \in Optional, domain_name \in Overrides,
          tags \in Optional, is_stack \in Flags, remote \in Remotes :
           Invoke("upload_url",
                  [url_to_upload |-> url_to_upload, title |-> title,
                   start_time |-> start_time, end_time |-> end_time,
                   domain_name |-> domain_name, tags |-> tags, is_stack |-> is_stack],
                  upload_url(self, url_to_upload, title, start_time, end_time,
                             domain_name, tags, is_stack, remote))

SendAiMessage ==
    /\ pc = "idle"
    /\ \E text \in Texts, context \in Optional, domain_name \in Overrides,
          user_name \in Optional, session_id \in Optional, source_name \in Optional,
          is_stack \in Flags, is_draft \in Flags, remote \in Remotes :
           Invoke("send_ai_message",
                  [text |-> text, context |-> context, domain_name |-> domain_name,
                   user_name |-> user_name, session_id |-> session_id,
                   source_name |-> source_name, is_stack |-> is_stack,
                   is_draft |-> is_draft],
                  send_ai_message(self, text, context, domain_name, user_name,
                                  session_id, source_name, is_stack, is_draft, remote))

UploadMemory ==
    /\ pc = "idle"
    /\ \E text \in Texts, created_time \in Optional, source_name \in Optional,
          raw_feed_text \in Optional, domain_name \in Overrides, tags \in Optional,
          remote \in Remotes :
           Invoke("upload_memory",
                  [text |-> text, created_time |-> created_time,
                   source_name |-> source_name, raw_feed_text |-> raw_feed_text,
                   domain_name |-> domain_name, tags |-> tags],
                  upload_memory(self, text, created_time, source_name, raw_feed_text,
                                domain_name, tags, remote))

\* The caller takes the result (or handles the exception) and goes on to its
\* next call; the instance and the module flags live on.
Caller ==
    /\ pc = "done"
    /\ pc' = "idle"
    /\ call' = NoCall
    /\ trace' = <<>>
    /\ outcome' = NoOutcome
    /\ UNCHANGED <<self, ctor, ENABLE_LOGGING, APP_MODE, earlier>>

Next ==
    \/ SendExternalInvite
    \/ ValidateApiKey
    \/ ValidateToken
    \/ SendAiInstruction
    \/ UploadDocument
    \/ UploadUrl
    \/ SendAiMessage
    \/ UploadMemory
    \/ Caller

Spec == Init /\ [][Next]_vars

\* The caller goes on to its next call on the same instance; the history
\* remembers whether a call so far named a domain of its own and whether one raised.
CallerRemembering ==
    /\ pc = "done"
    /\ pc' = "idle"
    /\ call' = NoCall
    /\ trace' = <<>>
    /\ outcome' = NoOutcome
    /\ earlier' =
          [overridden |-> \/ earlier.overridden
                          \/ /\ "domain_name" \in DOMAIN call.args
                             /\ Truthy(Arg(call.args.domain_name, None))
                             /\ call.args.domain_name # self.domain_name,
           raised     |-> earlier.raised \/ outcome.kind = "raise"]
    /\ UNCHANGED <<self, ctor, ENABLE_LOGGING, APP_MODE>>

\* A sequence of calls on one instance.
NextSession ==
    \/ SendExternalInvite
    \/ ValidateApiKey
    \/ ValidateToken
    \/ SendAiInstruction
    \/ UploadDocument
    \/ UploadUrl
    \/ SendAiMessage
    \/ UploadMemory
    \/ CallerRemembering

SpecSession == Init /\ [][NextSession]_vars

-----------------------------------------------------------------------------
(* Properties of PersonalAIClient, under Spec *)

ClientMethods ==
    {"send_external_invite", "validate_api_key", "validate_token",
     "send_ai_instruction", "send_ai_message", "upload_document", "upload_url",
     "upload_memory"}

DomainMethods ==
    {"send_external_invite", "send_ai_instruction", "send_ai_message",
     "upload_document", "upload_url", "upload_memory"}

\* The HTTP requests the invocation issued, in order.
Sent == SelectSeq(trace, LAMBDA ev : ev.e = "http")

ClientDone == pc = "done" /\ call.method \in ClientMethods

\* The fields the invocation handed to the HTTP layer, as a JSON object:
\* the query parameters when it passed params, the body otherwise.
Payload == IF Sent[1].params # None THEN dumps(Sent[1].params) ELSE Sent[1].data

\* The domain name the request carries.
SentDomain ==
    IF call.method = "send_external_invite"
    THEN Payload.o["domain_name"]
    ELSE Payload.o["DomainName"]

\* C1 as stated: a response with a non-2xx status makes the method raise, a 2xx
\* response is returned as received.
C1_NonSuccessRaises ==
    (ClientDone /\ Sent[1].result.t = "response") =>
        LET r == Sent[1].result
        IN  IF r.status_code \in 200..299
            THEN outcome = Return(r)
            ELSE outcome.kind = "raise"

\* C1 amended: a response with a 4xx or 5xx status makes the method raise (the
\* HTTPError of that response) and nothing is returned; a response with any other
\* status, 2xx included, is returned exactly as received.
C1_ErrorStatusRaises ==
    (ClientDone /\ Sent[1].result.t = "response") =>
        LET r == Sent[1].result
        IN  IF r.status_code \in 400..599
            THEN outcome = Raise(HTTPError(r))
            ELSE outcome = Return(r)

C1_Witness ==
    /\ ClientDone
    /\ Sent[1].result.t = "response"
    /\ Sent[1].result.status_code = 404
    /\ outcome.kind = "raise"

\* C3 as stated: the request carries the override whenever the caller supplies a
\* value, and the instance default when the override is left out.
C3_SuppliedOverrideWins ==
    (pc = "done" /\ call.method \in DomainMethods) =>
        LET o == call.args.domain_name
        IN  SentDomain = dumps(IF o \in {Omitted, None} THEN self.domain_name ELSE o)

\* C3 amended: the request carries the override whenever the caller supplies a
\* non-empty value, and the instance default when the override is left out, None
\* or the empty string.
C3_NonEmptyOverrideWins ==
    (pc = "done" /\ call.method \in DomainMethods) =>
        LET o == call.args.domain_name
        IN  SentDomain = dumps(IF o \in {Omitted, None, Str("")}
                               THEN self.domain_name ELSE o)

C3_Witness ==
    /\ pc = "done"
    /\ call.method \in DomainMethods
    /\ call.args.domain_name = Str("lounge")
    /\ self.domain_name = Str("ai-climbing")
    /\ SentDomain = dumps(Str("lounge"))

\* C4: whatever calls were made, with whatever overrides and outcomes, the
\* instance's api_key, base_url and domain_name are those given at construction.
C4_CredentialsFixed ==
    /\ self.api_key = ctor.api_key
    /\ self.base_url = ctor.base_url
    /\ self.domain_name = ctor.domain_name

C4_Witness ==
    /\ pc = "done"
    /\ call.method \in DomainMethods
    /\ Truthy(Arg(call.args.domain_name, None))
    /\ call.args.domain_name # ctor.domain_name
    /\ outcome.kind = "raise"

\* The keys of each endpoint's payload.
PayloadKeys(method) ==
    CASE method = "send_external_invite" -> {"email", "domain_name"}
      [] method = "validate_token"       -> {"token", "challenge"}
      [] method \in {"send_ai_instruction", "send_ai_message"} ->
            {"Text", "Context", "DomainName", "UserName", "SessionId",
             "SourceName", "is_stack", "is_draft"}
      [] method = "upload_document" ->
            {"Text", "Title", "StartTime", "EndTime", "DomainName", "Tags", "is_stack"}
      [] method = "upload_url" ->
            {"Url", "Title", "StartTime", "EndTime", "DomainName", "Tags", "is_stack"}
      [] method = "upload_memory" ->
            {"Text", "CreatedTime", "SourceName", "RawFeedText", "DomainName", "Tags"}

\* The payload key an argument is sent under.
KeyOf(method, arg) ==
    CASE arg = "domain_name" ->
            IF method = "send_external_invite" THEN "domain_name" ELSE "DomainName"
      [] arg = "context"       -> "Context"
      [] arg = "user_name"     -> "UserName"
      [] arg = "session_id"    -> "SessionId"
      [] arg = "source_name"   -> "SourceName"
      [] arg = "title"         -> "Title"
      [] arg = "start_time"    -> "StartTime"
      [] arg = "end_time"      -> "EndTime"
      [] arg = "tags"          -> "Tags"
      [] arg = "created_time"  -> "CreatedTime"
      [] arg = "raw_feed_text" -> "RawFeedText"
      [] OTHER                 -> arg

\* The arguments declared Optional[str].
OptionalArgs ==
    {"domain_name", "context", "user_name", "session_id", "source_name", "title",
     "start_time", "end_time", "tags", "created_time", "raw_feed_text"}

PayloadDone == pc = "done" /\ call.method \in ClientMethods \ {"validate_api_key"}

\* C10 as stated: the payload has every key of the endpoint, and an optional
\* argument left out is sent as null under its key.
C10_OmittedSentAsNull ==
    PayloadDone =>
        /\ DOMAIN Payload.o = PayloadKeys(call.method)
        /\ \A a \in DOMAIN call.args \cap OptionalArgs :
              call.args[a] = Omitted =>
                  Payload.o[KeyOf(call.method, a)] = dumps(None)

\* C10 amended: the payload has every key of the endpoint; an optional argument
\* left out is sent under its key as null, except domain_name, which is sent as the
\* instance default (null when the instance has none), and the flags is_stack and
\* is_draft, which are sent as their declared defaults.
C10_OmittedSentAsDefault ==
    PayloadDone =>
        /\ DOMAIN Payload.o = PayloadKeys(call.method)
        /\ \A a \in DOMAIN call.args :
              call.args[a] = Omitted =>
                  Payload.o[KeyOf(call.method, a)] =
                      dumps(CASE a = "domain_name" -> self.domain_name
                              [] a = "is_stack" ->
                                    Bool(call.method \in {"upload_document", "upload_url"})
                              [] a = "is_draft" -> Bool(FALSE)
                              [] OTHER -> None)

C10_Witness ==
    /\ pc = "done"
    /\ call.method = "upload_memory"
    /\ \A a \in {"created_time", "source_name", "raw_feed_text", "tags"} :
          call.args[a] = Omitted
    /\ Payload.o["Tags"] = dumps(None)
    /\ Payload.o["CreatedTime"] = dumps(None)

\* The exception `err` was raised in the try block, _log_error was then called
\* with it, and it is what reached the caller.
LoggedThenRaised(err) ==
    /\ outcome = Raise(err)
    /\ \E i, j \in DOMAIN trace :
          /\ i < j
          /\ trace[i] = Raised(err)
          /\ trace[j] = Called("_log_error", err)

\* The exception a request that went wrong gives rise to: the transport error
\* itself, or the HTTPError of the response.
Occurred == IF IsExc(Sent[1].result) THEN Sent[1].result ELSE HTTPError(Sent[1].result)

\* C12 as stated: whenever the request ends in a transport exception or a non-2xx
\* status, _log_error is called with the exception before it reaches the caller,
\* and the caller gets that exception.
C12_FailureLoggedBeforeRaise ==
    (ClientDone /\ (IsExc(Sent[1].result) \/ Sent[1].result.status_code \notin 200..299))
        => LoggedThenRaised(Occurred)

\* C12 amended: whenever the request ends in a transport exception or a 4xx/5xx
\* status, _log_error is called with the exception before it reaches the caller,
\* and the caller gets that exception; and no exception reaches the caller
\* without _log_error having been called with it first.
C12_ErrorLoggedBeforeRaise ==
    /\ (ClientDone /\ (IsExc(Sent[1].result) \/ Sent[1].result.status_code \in 400..599))
          => LoggedThenRaised(Occurred)
    /\ (ClientDone /\ outcome.kind = "raise") => LoggedThenRaised(outcome.value)

C12_Witness ==
    /\ ClientDone
    /\ ~ENABLE_LOGGING
    /\ Sent[1].result.t = "response"
    /\ Sent[1].result.status_code = 500
    /\ LoggedThenRaised(HTTPError(Sent[1].result))

\* C13: a method's fields travel as a JSON object in the request body; they
\* travel as query parameters only in a GET request, never in a POST.
C13_QueryParametersOnlyInGet ==
    PayloadDone =>
        /\ Sent[1].params # None => Sent[1].verb = "GET"
        /\ Sent[1].verb = "POST" =>
              /\ Sent[1].data # None
              /\ Sent[1].data.j = "object"
              /\ DOMAIN Sent[1].data.o = PayloadKeys(call.method)

\* The log records the invocation emitted, in order.
Records == SelectSeq(trace, LAMBDA ev : ev.e = "log")

\* C14: a call that returns its response emits log records if and only if
\* ENABLE_LOGGING is true and APP_MODE is development, the last of them being the
\* debug record with the response's status; with either flag off it emits none.
C14_MetadataLoggedIffBothFlags ==
    (ClientDone /\ outcome.kind = "return") =>
        IF ENABLE_LOGGING /\ APP_MODE = "development"
        THEN /\ Records # <<>>
             /\ \A i \in DOMAIN Records : Records[i].level = "DEBUG"
             /\ Records[Len(Records)].msg[2] = outcome.value.status_code
        ELSE Records = <<>>

C14_Witness ==
    /\ ClientDone
    /\ outcome.kind = "return"
    /\ ENABLE_LOGGING
    /\ APP_MODE = "production"
    /\ Records = <<>>

\* The instance as constructed, before any call.
Fresh == __init__(ctor.api_key, ctor.base_url, ctor.domain_name)

\* The method `method` run on instance s with arguments args.
Run(s, method, a, remote) ==
    CASE method = "send_external_invite" ->
            send_external_invite(s, a.email, a.domain_name, remote)
      [] method = "validate_api_key" -> validate_api_key(s, remote)
      [] method = "validate_token" -> validate_token(s, a.token, a.challenge, remote)
      [] method = "send_ai_instruction" ->
            send_ai_instruction(s, a.text, a.context, a.domain_name, a.user_name,
                                a.session_id, a.source_name, a.is_stack, a.is_draft, remote)
      [] method = "send_ai_message" ->
            send_ai_message(s, a.text, a.context, a.domain_name, a.user_name,
                            a.session_id, a.source_name, a.is_stack, a.is_draft, remote)
      [] method = "upload_document" ->
            upload_document(s, a.text, a.title, a.start_time, a.end_time,
                            a.domain_name, a.tags, a.is_stack, remote)
      [] method = "upload_url" ->
            upload_url(s, a.url_to_upload, a.title, a.start_time, a.end_time,
                       a.domain_name, a.tags, a.is_stack, remote)
      [] method = "upload_memory" ->
            upload_memory(s, a.text, a.created_time, a.source_name, a.raw_feed_text,
                          a.domain_name, a.tags, remote)

\* C16: whatever calls were made before on the instance, with whatever overrides
\* and outcomes, the request a call sends and what it returns or raises are those
\* the same call, given the same remote answer, yields on the instance as
\* constructed: they depend on the call's arguments, the construction-time
\* credentials and the remote answer alone.
C16_EarlierCallsLeaveNoMark ==
    ClientDone =>
        LET alone == Run(Fresh, call.method, call.args, Sent[1].result)
        IN  /\ Sent = SelectSeq(alone.trace, LAMBDA ev : ev.e = "http")
            /\ outcome = alone.outcome

C16_Witness ==
    /\ ClientDone
    /\ earlier.overridden
    /\ earlier.raised
    /\ call.method = "send_ai_message"
    /\ call.args.domain_name = Omitted
    /\ ctor.domain_name = Str("ai-climbing")
    /\ SentDomain = dumps(Str("ai-climbing"))
    /\ outcome.kind = "return"

\* C17: an override of None or of the empty string counts as left out, the
\* request carrying the instance default; and when the override is left out, None
\* or empty and the instance was given no default, the request carries null as
\* its domain name.
C17_EmptyOverrideFallsBack ==
    (pc = "done" /\ call.method \in DomainMethods) =>
        /\ call.args.domain_name \in {None, Str("")} =>
              SentDomain = dumps(self.domain_name)
        /\ (call.args.domain_name \in {Omitted, None, Str("")} /\ ctor.domain_name = None) =>
              SentDomain = dumps(None)

C17_Witness ==
    /\ pc = "done"
    /\ call.method = "upload_url"
    /\ call.args.domain_name = Str("")
    /\ ctor.domain_name = Str("ai-climbing")
    /\ SentDomain = dumps(Str("ai-climbing"))

-----------------------------------------------------------------------------
(* data_api_client: the market-data and forex-rate clients *)

\* print(f"{msg}: {e}")
Stdout(msg, e) == [e |-> "print", msg |-> msg, exc |-> e]

\* An except clause for RequestException only.
SwallowRequestErrors(before, r, msg, sentinel) ==
    IF IsExc(r)
    THEN IF IsInstance(r, "RequestException")
         THEN [trace |-> before \o <<Raised(r), Stdout(msg, r)>>,
               outcome |-> Return(sentinel)]
         ELSE [trace |-> before \o <<Raised(r)>>, outcome |-> Raise(r)]
    ELSE [trace |-> before, outcome |-> Return(r)]

\* A handler that issues the calls of the try block once more before giving up.
SwallowRetrying(before, r, msg, sentinel) ==
    IF IsExc(r)
    THEN [trace |-> before \o <<Raised(r)>> \o before \o <<Raised(r), Stdout(msg, r)>>,
          outcome |-> Return(sentinel)]
    ELSE [trace |-> before, outcome |-> Return(r)]

\* try: return r / except Exception as e: print(...); return sentinel
Swallow(before, r, msg, sentinel) ==
    IF IsExc(r)
    THEN IF IsInstance(r, "Exception")
         THEN [trace |-> before \o <<Raised(r), Stdout(msg, r)>>,
               outcome |-> Return(sentinel)]
         ELSE [trace |-> before \o <<Raised(r)>>, outcome |-> Raise(r)]
    ELSE [trace |-> before, outcome |-> Return(r)]

Columns == {"Open", "High", "Low", "Close", "Volume"}

NaN == [t |-> "nan"]

DataFrame(rows) == [t |-> "DataFrame", rows |-> rows]

\* One call of yf.download and the frame (or exception) it gave.
Download(ticker, start, end, interval, result) ==
    [e |-> "download", ticker |-> ticker, start |-> start, end |-> end,
     interval |-> interval, result |-> result]

\* dropna(how="all"): only the rows with every value missing go.
dropna_all(df) ==
    IF IsExc(df) THEN df ELSE
    DataFrame(SelectSeq(df.rows, LAMBDA row : \E c \in Columns : row[c] # NaN))

\* df.dropna(inplace=True): the rows with any value missing go.
dropna(df) ==
    IF IsExc(df) THEN df ELSE
    DataFrame(SelectSeq(df.rows, LAMBDA row : \A c \in Columns : row[c] # NaN))

get_stock_data(ticker, start, end, interval, downloaded) ==
    Swallow(<<Download(ticker, start, end, interval, downloaded)>>,
            dropna(downloaded),
            "An error occurred while fetching stock data", DataFrame(<<>>))

get_crypto_data(ticker, start, end, interval, downloaded) ==
    Swallow(<<Download(ticker, start, end, interval, downloaded)>>,
            dropna(downloaded),
            "An error occurred while fetching cryptocurrency data", DataFrame(<<>>))

\* One call of CurrencyRates.get_rate and what it gave.
Converter(base_currency, target_currency, result) ==
    [e |-> "converter", base |-> base_currency, target |-> target_currency,
     result |-> result]

get_forex_rate(base_currency, target_currency, converted) ==
    Swallow(<<Converter(base_currency, target_currency, converted)>>, converted,
            "An error occurred while fetching forex rates", None)

\* OpenExchangeRatesAPI.get_rate with 0 for a currency the table lacks.
OpenExchangeRatesAPI_get_rate_defaulting(s, base_currency, target_currency, remote) ==
    LET url  == "https://openexchangerates.org/api/latest.json?app_id=" \o s.api_key
                \o "&base=" \o base_currency
        data == json(Checked(remote))
        r    == Get(Subscript(data, "rates"), target_currency, Num(0))
    IN  Swallow(<<Http("GET", url, None, None, None, remote)>>, r,
                "An error occurred while fetching rates from Open Exchange Rates", None)

OpenExchangeRatesAPI_get_rate(s, base_currency, target_currency, remote) ==
    LET url  == "https://openexchangerates.org/api/latest.json?app_id=" \o s.api_key
                \o "&base=" \o base_currency
        data == json(Checked(remote))
        r    == Get(Subscript(data, "rates"), target_currency, None)
    IN  Swallow(<<Http("GET", url, None, None, None, remote)>>, r,
                "An error occurred while fetching rates from Open Exchange Rates", None)

CurrencyLayerAPI_get_rate(s, base_currency, target_currency, remote) ==
    LET url  == "http://api.currencylayer.com/live?access_key=" \o s.access_key
                \o "&currencies=" \o target_currency \o "&source=" \o base_currency
                \o "&format=1"
        data == json(Checked(remote))
        r    == Get(Subscript(data, "quotes"), base_currency \o target_currency, None)
    IN  Swallow(<<Http("GET", url, None, None, None, remote)>>, r,
                "An error occurred while fetching rates from CurrencyLayer", None)

ExchangeRatesAPI_get_rate(base_currency, target_currency, remote) ==
    LET url  == "https://api.exchangeratesapi.io/latest?base=" \o base_currency
                \o "&symbols=" \o target_currency
        data == json(Checked(remote))
        r    == Get(Subscript(data, "rates"), target_currency, None)
    IN  Swallow(<<Http("GET", url, None, None, None, remote)>>, r,
                "An error occurred while fetching rates from ExchangeRatesAPI.io", None)

\* AlphaVantageAPI.get_rate returning the field as found, without float().
AlphaVantageAPI_get_rate_unconverted(s, base_currency, target_currency, remote) ==
    LET url  == "https://www.alphavantage.co/query?function=CURRENCY_EXCHANGE_RATE&from_currency="
                \o base_currency \o "&to_currency=" \o target_currency
                \o "&apikey=" \o s.api_key
        data == json(Checked(remote))
        r    == Subscript(Subscript(data, "Realtime Currency Exchange Rate"),
                          "5. Exchange Rate")
    IN  Swallow(<<Http("GET", url, None, None, None, remote)>>, r,
                "An error occurred while fetching rates from Alpha Vantage", None)

AlphaVantageAPI_get_rate(s, base_currency, target_currency, remote) ==
    LET url  == "https://www.alphavantage.co/query?function=CURRENCY_EXCHANGE_RATE&from_currency="
                \o base_currency \o "&to_currency=" \o target_currency
                \o "&apikey=" \o s.api_key
        data == json(Checked(remote))
        r    == float(Subscript(Subscript(data, "Realtime Currency Exchange Rate"),
                                "5. Exchange Rate"))
    IN  Swallow(<<Http("GET", url, None, None, None, remote)>>, r,
                "An error occurred while fetching rates from Alpha Vantage", None)

ExchangerateHostAPI_get_rate(base_currency, target_currency, remote) ==
    LET url  == "https://api.exchangerate.host/latest?base=" \o base_currency
                \o "&symbols=" \o target_currency
        data == json(Checked(remote))
        r    == Get(Subscript(data, "rates"), target_currency, None)
    IN  Swallow(<<Http("GET", url, None, None, None, remote)>>, r,
                "An error occurred while fetching rates from Exchangerate.host", None)

-----------------------------------------------------------------------------
(* Inputs of the data_api_client specification *)

\* The longest series a download gives.
MaxRows == 2

Cells == {NaN, Num(1)}

RowOf(i, m) ==
    [Date |-> i, Open |-> m["Open"], High |-> m["High"], Low |-> m["Low"],
     Close |-> m["Close"], Volume |-> m["Volume"]]

\* The frames of n rows yf.download gives: rows in date order, any value
\* possibly missing.
Frames(n) ==
    {DataFrame([i \in 1..n |-> RowOf(i, f[i])]) : f \in [1..n -> [Columns -> Cells]]}

\* What yf.download gives: a frame of n rows, or an exception.
Downloads(n) == Frames(n) \cup {Exc("ConnectionError"), Exc("KeyError")}

Currencies == {"USD", "EUR"}

Conversions == {Num(n) : n \in 1..MaxRate} \cup {Exc("RatesNotAvailableError")}

JNull == [j |-> "null"]

JNum(n) == [j |-> "number", n |-> n]

JStr(str) == [j |-> "string", s |-> str]

JObject(f) == [j |-> "object", o |-> f]

JArray(q) == [j |-> "array", a |-> q]

\* What a provider puts where the rate goes.
RateLeaves ==
    {JNum(n) : n \in 1..MaxRate} \cup {JStr(ToString(n)) : n \in 1..MaxRate}
    \cup {JStr("n/a"), JNull}

Tables(keys) == UNION {[K -> RateLeaves] : K \in SUBSET keys}

RatesDocs == {JObject("rates" :> JObject(tb)) : tb \in Tables(Currencies)}

QuotesDocs == {JObject("quotes" :> JObject(tb)) : tb \in Tables({"USDEUR", "EURUSD"})}

AlphaDocs ==
    {JObject("Realtime Currency Exchange Rate" :> JObject("5. Exchange Rate" :> v)) :
        v \in RateLeaves}
    \cup {JObject("Realtime Currency Exchange Rate" :> JObject(<<>>)),
          JObject("Realtime Currency Exchange Rate" :> JStr("n/a")),
          JObject("Error Message" :> JStr("Invalid API call"))}

OtherDocs ==
    {JNull, JArray(<<>>), JObject("error" :> JStr("invalid key")),
     JObject("rates" :> JNull), JObject("quotes" :> JArray(<<>>))}

RemotesOf(docs) ==
    TransportErrors
    \cup {Response(st, b) : st \in StatusCodes,
          b \in {EmptyBody, TextBody("<html>")} \cup {JsonBody(d) : d \in docs \cup OtherDocs}}

InitData ==
    /\ ENABLE_LOGGING = FALSE
    /\ APP_MODE = "development"
    /\ \E k \in ApiKeys :
          self = [OpenExchangeRatesAPI |-> [api_key |-> k],
                  CurrencyLayerAPI |-> [access_key |-> k],
                  AlphaVantageAPI |-> [api_key |-> k]]
    /\ ctor = self
    /\ pc = "idle"
    /\ call = NoCall
    /\ trace = <<>>
    /\ outcome = NoOutcome
    /\ earlier = NoEarlier

GetStockData ==
    /\ pc = "idle"
    /\ \E ticker \in {"AAPL"}, start \in {"2023-01-01"}, end \in {"2023-06-30"},
          interval \in {"1d"}, n \in 0..MaxRows :
        \E downloaded \in Downloads(n) :
           Invoke("get_stock_data",
                  [ticker |-> ticker, start |-> start, end |-> end, interval |-> interval],
                  get_stock_data(ticker, start, end, interval, downloaded))

GetCryptoData ==
    /\ pc = "idle"
    /\ \E ticker \in {"BTC-USD"}, start \in {"2023-01-01"}, end \in {"2023-06-30"},
          interval \in {"1d"}, n \in 0..MaxRows :
        \E downloaded \in Downloads(n) :
           Invoke("get_crypto_data",
                  [ticker |-> ticker, start |-> start, end |-> end, interval |-> interval],
                  get_crypto_data(ticker, start, end, interval, downloaded))

GetForexRate ==
    /\ pc = "idle"
    /\ \E base \in Currencies, target \in Currencies, converted \in Conversions :
           Invoke("get_forex_rate", [base_currency |-> base, target_currency |-> target],
                  get_forex_rate(base, target, converted))

OpenExchangeRatesGetRate ==
    /\ pc = "idle"
    /\ \E base \in Currencies, target \in Currencies, remote \in RemotesOf(RatesDocs) :
           Invoke("OpenExchangeRatesAPI.get_rate",
                  [base_currency |-> base, target_currency |-> target],
                  OpenExchangeRatesAPI_get_rate(self.OpenExchangeRatesAPI, base, target, remote))

CurrencyLayerGetRate ==
    /\ pc = "idle"
    /\ \E base \in Currencies, target \in Currencies, remote \in RemotesOf(QuotesDocs) :
           Invoke("CurrencyLayerAPI.get_rate",
                  [base_currency |-> base, target_currency |-> target],
                  CurrencyLayerAPI_get_rate(self.CurrencyLayerAPI, base, target, remote))

ExchangeRatesGetRate ==
    /\ pc = "idle"
    /\ \E base \in Currencies, target \in Currencies, remote \in RemotesOf(RatesDocs) :
           Invoke("ExchangeRatesAPI.get_rate",
                  [base_currency |-> base, target_currency |-> target],
                  ExchangeRatesAPI_get_rate(base, target, remote))

AlphaVantageGetRate ==
    /\ pc = "idle"
    /\ \E base \in Currencies, target \in Currencies, remote \in RemotesOf(AlphaDocs) :
           Invoke("AlphaVantageAPI.get_rate",
                  [base_currency |-> base, target_currency |-> target],
                  AlphaVantageAPI_get_rate(self.AlphaVantageAPI, base, target, remote))

ExchangerateHostGetRate ==
    /\ pc = "idle"
    /\ \E base \in Currencies, target \in Currencies, remote \in RemotesOf(RatesDocs) :
           Invoke("ExchangerateHostAPI.get_rate",
                  [base_currency |-> base, target_currency |-> target],
                  ExchangerateHostAPI_get_rate(base, target, remote))

NextData ==
    \/ GetStockData
    \/ GetCryptoData
    \/ GetForexRate
    \/ OpenExchangeRatesGetRate
    \/ CurrencyLayerGetRate
    \/ ExchangeRatesGetRate
    \/ AlphaVantageGetRate
    \/ ExchangerateHostGetRate
    \/ Caller

SpecData == InitData /\ [][NextData]_vars

-----------------------------------------------------------------------------
(* Properties of the data clients, under SpecData *)

MarketMethods == {"get_stock_data", "get_crypto_data"}

HttpForexMethods ==
    {"OpenExchangeRatesAPI.get_rate", "CurrencyLayerAPI.get_rate",
     "ExchangeRatesAPI.get_rate", "AlphaVantageAPI.get_rate",
     "ExchangerateHostAPI.get_rate"}

ForexMethods == HttpForexMethods \cup {"get_forex_rate"}

DataDone == pc = "done" /\ call.method \in MarketMethods \cup ForexMethods

\* The exceptions raised while the invocation ran.
RaisedInCall == {trace[i].exc : i \in {n \in DOMAIN trace : trace[n].e = "raise"}}

\* C2: whatever exception is raised during a market or forex call, the method
\* does not raise and returns its sentinel: an empty table for the market
\* methods, None for the forex methods.
C2_ExceptionsBecomeSentinel ==
    DataDone =>
        /\ outcome.kind = "return"
        /\ RaisedInCall # {} =>
              outcome.value = IF call.method \in MarketMethods
                              THEN DataFrame(<<>>) ELSE None

C2_Witness ==
    /\ DataDone
    /\ call.method = "AlphaVantageAPI.get_rate"
    /\ RaisedInCall = {Exc("ValueError")}
    /\ outcome = Return(None)

Missing == [j |-> "missing"]

\* The JSON value at a path of keys, Missing when the path leads nowhere.
RECURSIVE At(_, _)
At(doc, path) ==
    IF path = <<>> THEN doc
    ELSE IF doc.j = "object" /\ Head(path) \in DOMAIN doc.o
         THEN At(doc.o[Head(path)], Tail(path))
         ELSE Missing

\* The documented path of each variant's rate.
RatePath(method, args) ==
    CASE method = "CurrencyLayerAPI.get_rate" ->
            <<"quotes", args.base_currency \o args.target_currency>>
      [] method = "AlphaVantageAPI.get_rate" ->
            <<"Realtime Currency Exchange Rate", "5. Exchange Rate">>
      [] OTHER -> <<"rates", args.target_currency>>

\* A forex call answered 2xx with a JSON body that has a value at the rate's path.
RateFound ==
    /\ pc = "done"
    /\ call.method \in HttpForexMethods
    /\ trace[1].result.t = "response"
    /\ trace[1].result.status_code \in 200..299
    /\ trace[1].result.body.k = "json"
    /\ At(trace[1].result.body.doc, RatePath(call.method, call.args)) # Missing

FoundRate == At(trace[1].result.body.doc, RatePath(call.method, call.args))

\* C5 as stated: on a 2xx response every variant returns the value found at its
\* documented JSON path.
C5_RateIsValueAtPath ==
    RateFound => outcome = Return(loads(FoundRate))

\* C5 amended: on a 2xx response OpenExchangeRates, ExchangeRatesAPI.io,
\* Exchangerate.host and CurrencyLayer return the value found at their path as it
\* is; Alpha Vantage returns that value converted to a float (a number stays, a
\* numeral string becomes its number) and None when it does not convert.
C5_RateIsConvertedValueAtPath ==
    RateFound =>
        IF call.method = "AlphaVantageAPI.get_rate"
        THEN outcome =
                Return(CASE FoundRate.j = "number" -> Num(FoundRate.n)
                         [] FoundRate.j = "string"
                            /\ \E n \in 0..MaxRate : FoundRate.s = ToString(n) ->
                               Num(CHOOSE n \in 0..MaxRate : FoundRate.s = ToString(n))
                         [] OTHER -> None)
        ELSE outcome = Return(loads(FoundRate))

C5_Witness ==
    /\ RateFound
    /\ call.method = "AlphaVantageAPI.get_rate"
    /\ FoundRate = JStr("2")
    /\ outcome = Return(Num(2))

\* A forex call answered 2xx with a JSON body that has nothing at the rate's path.
RateMissing ==
    /\ pc = "done"
    /\ call.method \in HttpForexMethods
    /\ trace[1].result.t = "response"
    /\ trace[1].result.status_code \in 200..299
    /\ trace[1].result.body.k = "json"
    /\ At(trace[1].result.body.doc, RatePath(call.method, call.args)) = Missing

\* A forex call whose request failed: a transport error or a 4xx/5xx status.
RequestFailed ==
    /\ pc = "done"
    /\ call.method \in HttpForexMethods
    /\ IsExc(Checked(trace[1].result))

\* C15: a 2xx answer with no entry for the pair at the variant's path gives the
\* same result as a failed request, None, so the returned value does not tell
\* the two apart.
C15_MissingRateLooksLikeFailure ==
    (RateMissing \/ RequestFailed) => outcome = Return(None)

C15_Witness ==
    /\ RateMissing
    /\ call.method = "OpenExchangeRatesAPI.get_rate"
    /\ trace[1].result.body.doc.j = "object"
    /\ "rates" \in DOMAIN trace[1].result.body.doc.o
    /\ RaisedInCall = {}
    /\ outcome = Return(None)

Complete(row) == \A c \in Columns : row[c] # NaN

\* A market call whose download gave a frame.
SeriesFetched ==
    /\ pc = "done"
    /\ call.method \in MarketMethods
    /\ trace[1].result.t = "DataFrame"

\* C9: on success the market methods return exactly the rows of the provider's
\* series that have no missing field, in the provider's order.
C9_OnlyCompleteRowsInOrder ==
    SeriesFetched =>
        LET given == trace[1].result.rows
            out   == outcome.value.rows
        IN  /\ outcome.kind = "return"
            /\ \A j \in DOMAIN out : Complete(out[j]) /\ \E i \in DOMAIN given : given[i] = out[j]
            /\ \A i \in DOMAIN given : Complete(given[i]) => \E j \in DOMAIN out : out[j] = given[i]
            /\ \A j, k \in DOMAIN out : j < k => out[j].Date < out[k].Date

C9_Witness ==
    /\ SeriesFetched
    /\ Len(trace[1].result.rows) = 2
    /\ ~Complete(trace[1].result.rows[1])
    /\ trace[1].result.rows[1].Open # NaN
    /\ Complete(trace[1].result.rows[2])
    /\ outcome.value.rows = <<trace[1].result.rows[2]>>

-----------------------------------------------------------------------------
(* PersonalAIValidator: the standalone key validation *)

\* response.content, as the `if` tests it: whether the body has any bytes.
content(response) == response.body.k # "empty"

\* response.text
text(response) ==
    CASE response.body.k = "empty" -> Str("")
      [] response.body.k = "text"  -> Str(response.body.v)
      [] OTHER                     -> [t |-> "text", doc |-> response.body.doc]

\* str(e)
StrOf(e) == Str(e.cls)

InvalidJson(response) ==
    Dict(("validation" :> Str("failed"))
      @@ ("error" :> Str("Invalid JSON response"))
      @@ ("response_body" :> text(response)))

\* The logical-failure result without the body.
LogicalFailureWithoutBody(json_response) ==
    Dict(("validation" :> Str("failed"))
      @@ ("error" :> Str("Validation failed despite 200 status code, Unable to Return Data for Validation."))
      @@ ("response_body" :> None))

LogicalFailure(json_response) ==
    Dict(("validation" :> Str("failed"))
      @@ ("error" :> Str("Validation failed despite 200 status code, Unable to Return Data for Validation."))
      @@ ("response_body" :> json_response))

\* The success result with first and last name exchanged.
SuccessNamesSwapped(validation_status, json_response) ==
    Dict(("validation" :> validation_status)
      @@ ("firstName" :> Get(json_response, "lastName", None))
      @@ ("lastName" :> Get(json_response, "firstName", None))
      @@ ("email" :> Get(json_response, "email", None))
      @@ ("response_body" :> json_response))

Success(validation_status, json_response) ==
    Dict(("validation" :> validation_status)
      @@ ("firstName" :> Get(json_response, "firstName", None))
      @@ ("lastName" :> Get(json_response, "lastName", None))
      @@ ("email" :> Get(json_response, "email", None))
      @@ ("response_body" :> json_response))

EmptyFailure ==
    Dict(("validation" :> Str("failed"))
      @@ ("error" :> Str("Empty response"))
      @@ ("response_body" :> None))

TransportFailure(e) ==
    Dict(("validation" :> Str("failed"))
      @@ ("error" :> StrOf(e))
      @@ ("response_body" :> None))

\* The statements after raise_for_status, inside the outer try.
Validated(response) ==
    LET json_response     == json(response)
        validation_status == Get(json_response, "validation", Str("failed"))
    IN  IF IsExc(response) THEN response
        ELSE IF ~content(response) THEN EmptyFailure
        ELSE IF IsExc(json_response)
             THEN IF IsInstance(json_response, "ValueError")
                  THEN InvalidJson(response)
                  ELSE json_response
        ELSE IF IsExc(validation_status) THEN validation_status
        ELSE IF validation_status # Str("success") THEN LogicalFailure(json_response)
        ELSE Success(validation_status, json_response)

PersonalAIValidator_validate_api_key(env, remote) ==
    LET url     == env.PERSONAL_AI_BASE_URL \o "/v1/api-key/validate"
        headers == ("Content-Type" :> "application/json")
                   @@ ("x-api-key" :> env.PERSONAL_AI_API_KEY)
        before  == <<Stdout("Request URL", Str(url)),
                     Http("GET", url, headers, None, None, remote)>>
        r       == Validated(Checked(remote))
    IN  IF IsExc(r)
        THEN IF IsInstance(r, "RequestException")
             THEN [trace |-> before \o <<Raised(r),
                       Stdout("An error occurred while validating the API key", r)>>,
                   outcome |-> Return(TransportFailure(r))]
             ELSE [trace |-> before \o <<Raised(r)>>, outcome |-> Raise(r)]
        ELSE [trace |-> before, outcome |-> Return(r)]

-----------------------------------------------------------------------------
(* Inputs of the validator specification *)

\* What the service may put under each key of its answer.
ValidationFields ==
    [validation |-> {JStr("success"), JStr("failed"), JNull},
     firstName  |-> {JStr("A")},
     lastName   |-> {JStr("B")},
     email      |-> {JStr("a@example.com")}]

ValidationDocs ==
    {JObject(f) : f \in UNION {{g \in [K -> UNION {ValidationFields[k] : k \in K}] :
                                   \A k \in K : g[k] \in ValidationFields[k]} :
                               K \in SUBSET DOMAIN ValidationFields}}

NonObjectDocs == {JNull, JArray(<<>>), JStr("ok"), JNum(1)}

ValidatorRemotes ==
    TransportErrors
    \cup {Response(st, b) : st \in StatusCodes,
          b \in {EmptyBody, TextBody("<html>")}
                \cup {JsonBody(d) : d \in ValidationDocs \cup NonObjectDocs}}

InitValidator ==
    /\ ENABLE_LOGGING = FALSE
    /\ APP_MODE = "development"
    /\ \E k \in ApiKeys, b \in BaseUrls :
          self = [PERSONAL_AI_BASE_URL |-> b, PERSONAL_AI_API_KEY |-> k]
    /\ ctor = self
    /\ pc = "idle"
    /\ call = NoCall
    /\ trace = <<>>
    /\ outcome = NoOutcome
    /\ earlier = NoEarlier

ValidatorValidateApiKey ==
    /\ pc = "idle"
    /\ \E remote \in ValidatorRemotes :
           Invoke("PersonalAIValidator.validate_api_key", <<>>,
                  PersonalAIValidator_validate_api_key(self, remote))

NextValidator ==
    \/ ValidatorValidateApiKey
    \/ Caller

SpecValidator == InitValidator /\ [][NextValidator]_vars

-----------------------------------------------------------------------------
(* Properties of the validator, under SpecValidator *)

ValidatorDone == pc = "done" /\ call.method = "PersonalAIValidator.validate_api_key"

\* What the validator's request gave back.
Answer == trace[2].result

\* The request was answered 200 with a JSON object as body.
ObjectAnswered ==
    /\ ValidatorDone
    /\ Answer.t = "response"
    /\ Answer.status_code = 200
    /\ Answer.body.k = "json"
    /\ Answer.body.doc.j = "object"

\* C6: a 200 answer whose validation field is not "success" gives a failure
\* result carrying the parsed body as response_body; a transport error gives a
\* failure result carrying no body; so the two are told apart.
C6_LogicalFailureCarriesBody ==
    /\ (/\ ObjectAnswered
        /\ "validation" \in DOMAIN Answer.body.doc.o
        /\ Answer.body.doc.o["validation"] # JStr("success"))
       => /\ outcome.kind = "return"
          /\ outcome.value.d["validation"] = Str("failed")
          /\ outcome.value.d["response_body"] = loads(Answer.body.doc)
          /\ outcome.value.d["response_body"] # None
    /\ (ValidatorDone /\ Answer \in TransportErrors)
       => /\ outcome.kind = "return"
          /\ outcome.value.d["validation"] = Str("failed")
          /\ outcome.value.d["response_body"] = None

C6_Witness ==
    /\ ObjectAnswered
    /\ Answer.body.doc = JObject("validation" :> JStr("failed"))
    /\ outcome.value.d["response_body"] = Dict("validation" :> Str("failed"))

\* C7: whatever the request comes to, validate_api_key returns a result and
\* raises nothing.
C7_NeverRaises ==
    ValidatorDone => outcome.kind = "return"

\* The body's field of that name, None when absent.
Field(name) ==
    IF name \in DOMAIN Answer.body.doc.o THEN loads(Answer.body.doc.o[name]) ELSE None

\* C8: a 200 answer whose validation field is "success" gives a result with
\* validation "success", firstName, lastName and email as in the body (None when
\* absent) and the parsed body as response_body.
C8_SuccessExposesFields ==
    (ObjectAnswered /\ Field("validation") = Str("success")) =>
        outcome = Return(Dict(("validation" :> Str("success"))
                           @@ ("firstName" :> Field("firstName"))
                           @@ ("lastName" :> Field("lastName"))
                           @@ ("email" :> Field("email"))
                           @@ ("response_body" :> loads(Answer.body.doc))))

C8_Witness ==
    /\ ObjectAnswered
    /\ Answer.body.doc = JObject(("validation" :> JStr("success")) @@ ("firstName" :> JStr("A")))
    /\ outcome.kind = "return"
    /\ outcome.value.d["firstName"] = Str("A")
    /\ outcome.value.d["lastName"] = None

\* The request was answered 2xx with a non-empty body that decodes as a JSON
\* object whose validation field is "success".
ValidAnswer ==
    /\ Answer.t = "response"
    /\ Answer.status_code \in 200..299
    /\ Answer.body.k = "json"
    /\ Answer.body.doc.j = "object"
    /\ "validation" \in DOMAIN Answer.body.doc.o
    /\ Answer.body.doc.o["validation"] = JStr("success")

\* C18: a returned result has validation "success" only if the answer was 2xx,
\* non-empty, JSON and had validation "success"; the result returned for any
\* other outcome has validation "failed" and an error description.
C18_SuccessOnlyForValidAnswer ==
    (ValidatorDone /\ outcome.kind = "return") =>
        /\ outcome.value.d["validation"] = Str("success") => ValidAnswer
        /\ ~ValidAnswer =>
              /\ outcome.value.d["validation"] = Str("failed")
              /\ "error" \in DOMAIN outcome.value.d

-----------------------------------------------------------------------------
(* The three components together: the instance under call is a PersonalAIClient, *)
(* the data clients, or the validator's environment.                             *)

IsClientInstance == DOMAIN self = {"api_key", "base_url", "domain_name"}

IsDataClients == DOMAIN self = {"OpenExchangeRatesAPI", "CurrencyLayerAPI", "AlphaVantageAPI"}

IsValidatorEnv == DOMAIN self = {"PERSONAL_AI_BASE_URL", "PERSONAL_AI_API_KEY"}

InitClients == Init \/ InitData \/ InitValidator

NextClients ==
    \/ IsClientInstance /\ Next
    \/ IsDataClients /\ NextData
    \/ IsValidatorEnv /\ NextValidator

SpecClients == InitClients /\ [][NextClients]_vars

\* The methods that talk HTTP through requests.
RequestMethods ==
    ClientMethods \cup HttpForexMethods \cup {"PersonalAIValidator.validate_api_key"}

\* C11: every invocation of a PersonalAIClient method, of an HTTP forex get_rate
\* or of the validator's validate_api_key calls requests.get / requests.post
\* exactly once, whether the request succeeds or fails: no retry, no second request.
C11_ExactlyOneRequest ==
    (pc = "done" /\ call.method \in RequestMethods) => Len(Sent) = 1

C11_Witness ==
    /\ pc = "done"
    /\ call.method \in HttpForexMethods
    /\ Len(Sent) = 1
    /\ Sent[1].result \in TransportErrors
    /\ outcome = Return(None)

=============================================================================
